---- MODULE Spec2Model ----
(***************************************************************************)
(* State-machine model of the multi-agent system:                          *)
(*  - the dependency-graph task scheduler: ProjectState / Task             *)
(*    (utils/project_state.py) and OrchestratorAgent                       *)
(*    (agents/orchestrator.py), for one caller (Spec, SpecState, SpecPlan) *)
(*    and for two concurrent callers of coordinate_agents (SpecConc);      *)
(*  - the snapshot of a project: save_to_file / load_from_file (SpecPlan); *)
(*  - the artifacts table written by ProjectService.save_artifact          *)
(*    (services/project_service.py, SpecArtifacts);                        *)
(*  - CodeGenerator.extract_code_blocks (utils/code_generator.py,          *)
(*    SpecExtract).                                                        *)
(*                                                                         *)
(* One project is scheduled.  Task ids are allocated 1, 2, ... in          *)
(* insertion order (the code draws fresh uuid4 strings); id 0 is never     *)
(* allocated, so a dependency on 0 is a dangling dependency.               *)
(***************************************************************************)
EXTENDS Integers, Sequences, FiniteSets, TLC

\* ------------------------------------------------------------------------
\* Bounds of the model
\* ------------------------------------------------------------------------

\* largest number of tasks registered one by one through add_task
MaxTasks == 4

\* largest size of a project on which plan_project is still called
MaxPlanTasks == 5

\* largest number of tasks of a project state built directly from Task objects
MaxStateTasks == 3

\* largest number of times plan_project is called on one project
MaxPlans == 2

\* largest number of save_artifact calls
MaxSaves == 4

\* largest number of blocks of a generated text
MaxBlocks == 3

\* largest number of tasks of a project whose tasks carry names of the
\* caller's choice
MaxContextTasks == 3

\* number of task ids a caller chooses from when it names the ids itself
MaxGraphTasks == 2


\* ------------------------------------------------------------------------
\* Values
\* ------------------------------------------------------------------------

None == "None"

\* the value None where a result dict is expected
NoResult == [agent |-> None, task |-> None, status |-> None, response |-> None, error |-> None]

PENDING == "pending"
IN_PROGRESS == "in_progress"
BLOCKED == "blocked"
IN_REVIEW == "in_review"
COMPLETED == "completed"
FAILED == "failed"

TaskStatus == {PENDING, IN_PROGRESS, BLOCKED, IN_REVIEW, COMPLETED, FAILED}

REQUIREMENTS == "requirements"
DESIGN == "design"
IMPLEMENTATION == "implementation"
TESTING == "testing"
DEPLOYMENT == "deployment"
PHASE_COMPLETED == "phase_completed"

ProjectPhase == {REQUIREMENTS, DESIGN, IMPLEMENTATION, TESTING, DEPLOYMENT, PHASE_COMPLETED}

\* the one project id create_project hands out in this model
ProjectId == "p1"

\* the agents MultiAgentSystem registers, in registration order
SystemAgents == <<"ProductManager", "Architect", "BackendDeveloper", "QAEngineer", "DevOpsEngineer", "DocumentationAgent">>

\* roles a task added through add_task may be assigned to; "Agent1" is a role
\* for which no agent is ever registered
TaskRoles == {"ProductManager", "Agent1"}

\* names of the tasks added through add_task, by id
TaskNames == <<"Task 1", "Task 2", "Task 3", "Task 4", "Task 5", "Task 6", "Task 7", "Task 8", "Task 9", "Task 10", "Task 11", "Task 12">>

\* the status of the result dict a Worker returns; a Worker may also raise
WorkerOutcomes == {"success", "error"}

\* the id no task ever has
DanglingId == 0

\* what datetime.now() returned when the project and its tasks were constructed
CreatedAt == "created"

\* what datetime.now() may return when load_from_file constructs its objects:
\* the clock still reads the same value, or a later one
LoadTimes == {CreatedAt, "loaded"}

Range(s) == {s[k] : k \in 1..Len(s)}

VARIABLES
    project_states,   \* OrchestratorAgent.project_states: the ids of the created projects
    agent_registry,   \* OrchestratorAgent.agent_registry: the registered agent names
    tasks,            \* ProjectState.tasks: task id -> Task
    order,            \* insertion order of the keys of ProjectState.tasks
    phase,            \* ProjectState.phase
    pc,               \* position of the caller
    caller,           \* who called execute_next_tasks: "api" or "coordinate"
    ready_tasks,      \* execute_next_tasks: the local list ready_tasks
    i,                \* execute_next_tasks: position of the for loop in ready_tasks
    results,          \* execute_next_tasks: the local list results
    coord_result,     \* value the last coordinate_agents call returned
    status_at_call,   \* history: task statuses when execute_next_tasks was entered
    phase_at_call,    \* history: phase when coordinate_agents was entered
    calls,            \* history: task id -> what its dispatch did
    threads,          \* concurrent callers of coordinate_agents: thread -> its position and locals
    project_status,   \* what the last call of get_project_status returned or raised
    file,             \* the JSON document save_to_file wrote
    loaded,           \* the ProjectState load_from_file returned
    artifacts,        \* the rows of the artifacts table, in insertion order
    saves,            \* history: the save_artifact calls made so far
    text,             \* the generated text handed to extract_code_blocks, as its blocks
    extracted,        \* what extract_code_blocks returned
    agent_output,     \* the result dict of a Worker handed to parse_file_structure: key -> content
    parsed,           \* what parse_file_structure returned
    todo,             \* write_files: the paths the for loop has still to visit
    disk,             \* the files under the project directory: path -> content
    written_files,    \* write_files: the local list written_files
    failed,           \* history: the paths whose write_file raised
    generated,        \* what generate_project_from_agent_output returned
    raised            \* the last call made with a project id of the caller's choice, and what it raised

sysVars == <<project_states, agent_registry>>
projVars == <<tasks, order, phase>>
callVars == <<pc, caller, ready_tasks, i, results, coord_result>>
histVars == <<status_at_call, phase_at_call, calls>>
\* the state of the parts of the system the scheduler of one caller leaves alone
extVars == <<threads, project_status, file, loaded, artifacts, saves, text, extracted, agent_output, parsed, todo, disk, written_files, failed, generated, raised>>
\* the same, for the callers of coordinate_agents, of get_project_status and of
\* save_to_file / load_from_file, of save_artifact, of extract_code_blocks, of
\* generate_project_from_agent_output and of the calls on an unknown project
notThreads == <<project_status, file, loaded, artifacts, saves, text, extracted, agent_output, parsed, todo, disk, written_files, failed, generated, raised>>
notStatus == <<threads, file, loaded, artifacts, saves, text, extracted, agent_output, parsed, todo, disk, written_files, failed, generated, raised>>
notFile == <<threads, project_status, artifacts, saves, text, extracted, agent_output, parsed, todo, disk, written_files, failed, generated, raised>>
notArtifacts == <<threads, project_status, file, loaded, text, extracted, agent_output, parsed, todo, disk, written_files, failed, generated, raised>>
notExtract == <<threads, project_status, file, loaded, artifacts, saves, agent_output, parsed, todo, disk, written_files, failed, generated, raised>>
notGenerate == <<threads, project_status, file, loaded, artifacts, saves, text, extracted, raised>>
notStatusRaised == <<threads, file, loaded, artifacts, saves, text, extracted, agent_output, parsed, todo, disk, written_files, failed, generated>>
notRaised == <<threads, project_status, file, loaded, artifacts, saves, text, extracted, agent_output, parsed, todo, disk, written_files, failed, generated>>
vars == <<project_states, agent_registry, tasks, order, phase, pc, caller, ready_tasks, i, results, coord_result, status_at_call, phase_at_call, calls, threads, project_status, file, loaded, artifacts, saves, text, extracted, agent_output, parsed, todo, disk, written_files, failed, generated, raised>>

\* ------------------------------------------------------------------------
\* utils/project_state.py
\* ------------------------------------------------------------------------

\* Task(id, name, description, assigned_to, status=..., dependencies=...) with
\* the dataclass defaults for the other fields
Task(id, name, assigned_to, status, dependencies) ==
    [id |-> id, name |-> name, assigned_to |-> assigned_to, status |-> status,
     dependencies |-> dependencies, created_at |-> CreatedAt, completed_at |-> None,
     output |-> NoResult, error |-> None]

\* the placeholder Task("", "", "", "") get_ready_tasks uses for a missing id
MissingTask == Task(DanglingId, "", "", PENDING, {})

\* ProjectState.add_task
AddTaskTo(ts, task) ==
    [t \in DOMAIN ts \cup {task.id} |-> IF t = task.id THEN task ELSE ts[t]]

\* insertion order of a dict after tasks[id] = task
AddKey(ord, id) == IF id \in Range(ord) THEN ord ELSE Append(ord, id)

\* ProjectState.update_task_status
UpdateTaskStatus(ts, task_id, status, output) ==
    IF task_id \in DOMAIN ts
    THEN [ts EXCEPT ![task_id] =
            [@ EXCEPT !.status = status,
                      !.output = IF output # NoResult THEN output ELSE @,
                      !.completed_at = IF status = COMPLETED THEN "now" ELSE @]]
    ELSE ts

\* mutant: failed tasks are picked up again
GetPendingTasksRetryFailed(ts, ord) ==
    SelectSeq(ord, LAMBDA t : ts[t].status \in {PENDING, FAILED})

\* ProjectState.get_pending_tasks, in insertion order
GetPendingTasks(ts, ord) == SelectSeq(ord, LAMBDA t : ts[t].status = PENDING)

\* mutant: a missing dependency counts as a completed one
TaskGetMissingCompleted(ts, dep_id) ==
    IF dep_id \in DOMAIN ts THEN ts[dep_id] ELSE [MissingTask EXCEPT !.status = COMPLETED]

\* self.tasks.get(dep_id, Task("", "", "", ""))
TaskGet(ts, dep_id) == IF dep_id \in DOMAIN ts THEN ts[dep_id] ELSE MissingTask

\* mutant: a failed dependency counts as satisfied
DependenciesSatisfiedLoose(ts, t) ==
    \A dep_id \in ts[t].dependencies : TaskGet(ts, dep_id).status \in {COMPLETED, FAILED}

\* mutant: only tasks without dependencies are ready
DependenciesSatisfiedNone(ts, t) == ts[t].dependencies = {}

\* the all(...) of get_ready_tasks
DependenciesSatisfied(ts, t) ==
    \A dep_id \in ts[t].dependencies : TaskGet(ts, dep_id).status = COMPLETED

\* ProjectState.get_ready_tasks
GetReadyTasks(ts, ord) ==
    SelectSeq(GetPendingTasks(ts, ord), LAMBDA t : DependenciesSatisfied(ts, t))

\* ------------------------------------------------------------------------
\* agents/orchestrator.py
\* ------------------------------------------------------------------------

\* OrchestratorAgent.register_agent
RegisterAgent(registry, agent_name) == registry \cup {agent_name}

\* the loop of MultiAgentSystem.__init__ over its agents
RECURSIVE RegisterAll(_, _)
RegisterAll(registry, names) ==
    IF names = << >> THEN registry
    ELSE RegisterAll(RegisterAgent(registry, Head(names)), Tail(names))

\* mutant: every chain depends on the tasks of the first one
PlanTasksCrossChain(first) ==
    << Task(first, "Analyze Requirements", "ProductManager", PENDING, {}),
       Task(first + 1, "Design Architecture", "Architect", PENDING, {1}),
       Task(first + 2, "Implement Backend", "BackendDeveloper", PENDING, {2}),
       Task(first + 3, "Write Tests", "QAEngineer", PENDING, {3}),
       Task(first + 4, "Prepare Deployment", "DevOpsEngineer", PENDING, {4}) >>

\* the five tasks plan_project builds, given the first fresh id
PlanTasks(first) ==
    << Task(first, "Analyze Requirements", "ProductManager", PENDING, {}),
       Task(first + 1, "Design Architecture", "Architect", PENDING, {first}),
       Task(first + 2, "Implement Backend", "BackendDeveloper", PENDING, {first + 1}),
       Task(first + 3, "Write Tests", "QAEngineer", PENDING, {first + 2}),
       Task(first + 4, "Prepare Deployment", "DevOpsEngineer", PENDING, {first + 3}) >>

\* the result dict a Worker returns (BaseAgent.process_request)
WorkerResult(agent, outcome) ==
    IF outcome = "success"
    THEN [agent |-> agent, task |-> None, status |-> "success", response |-> "response", error |-> None]
    ELSE [agent |-> agent, task |-> None, status |-> "error", response |-> None, error |-> "agent error"]

\* the result dict execute_next_tasks builds in its except branch
ExceptionResult(task) ==
    [agent |-> task.assigned_to, task |-> task.name, status |-> "error", response |-> None, error |-> "exception"]

\* all(task.status in [COMPLETED, FAILED] for task in project.tasks.values())
AllComplete(ts) == \A t \in DOMAIN ts : ts[t].status \in {COMPLETED, FAILED}

\* any(r["status"] == "error" for r in results)
AnyError(rs) == \E k \in 1..Len(rs) : rs[k].status = "error"

Statuses(ts) == [t \in DOMAIN ts |-> ts[t].status]

\* no call is in progress: the caller may start any operation
Idle == pc \in {"idle", "exec_done", "coord_done"}

Created == ProjectId \in project_states

\* the locals and the return value of the previous call are gone once the
\* caller starts another operation
Forget ==
    /\ pc' = "idle"
    /\ caller' = "api"
    /\ ready_tasks' = << >>
    /\ i' = 1
    /\ results' = << >>
    /\ coord_result' = "none"
    /\ status_at_call' = << >>
    /\ phase_at_call' = REQUIREMENTS

Init ==
    /\ project_states = {}
    /\ agent_registry = {}
    /\ tasks = << >>
    /\ order = << >>
    /\ phase = REQUIREMENTS
    /\ pc = "idle"
    /\ caller = "api"
    /\ ready_tasks = << >>
    /\ i = 1
    /\ results = << >>
    /\ coord_result = "none"
    /\ status_at_call = << >>
    /\ phase_at_call = REQUIREMENTS
    /\ calls = << >>
    /\ threads = << >>
    /\ project_status = [raised |-> "none"]
    /\ file = "none"
    /\ loaded = "none"
    /\ artifacts = << >>
    /\ saves = << >>
    /\ text = << >>
    /\ extracted = [returned |-> FALSE, files |-> << >>]
    /\ agent_output = << >>
    /\ parsed = [returned |-> FALSE, files |-> [keys |-> << >>, val |-> << >>]]
    /\ todo = << >>
    /\ disk = << >>
    /\ written_files = << >>
    /\ failed = {}
    /\ generated = [returned |-> FALSE]
    /\ raised = [op |-> None, project_id |-> None, error |-> None]

\* MultiAgentSystem.__init__: register every system agent
InitAgents ==
    /\ Idle
    /\ project_states = {}
    /\ agent_registry = {}
    /\ agent_registry' = RegisterAll(agent_registry, SystemAgents)
    /\ Forget
    /\ UNCHANGED <<extVars, project_states, projVars, calls>>

\* OrchestratorAgent.create_project
CreateProject ==
    /\ Idle
    /\ ~Created
    /\ project_states' = project_states \cup {ProjectId}
    /\ tasks' = << >>
    /\ order' = << >>
    /\ phase' = REQUIREMENTS
    /\ Forget
    /\ UNCHANGED <<extVars, agent_registry, calls>>

\* the dependency lists offered to add_task for the task that gets id n
DepChoices(n) == {{}, {DanglingId}, {n - 1}}

\* project.add_task(Task(...)) with a fresh id
AddTask(assigned_to, dependencies) ==
    /\ Idle
    /\ Created
    /\ Len(order) < MaxTasks
    /\ LET id == Len(order) + 1
           task == Task(id, TaskNames[id], assigned_to, PENDING, dependencies)
       IN /\ tasks' = AddTaskTo(tasks, task)
          /\ order' = AddKey(order, id)
    /\ Forget
    /\ UNCHANGED <<extVars, sysVars, phase, calls>>

RECURSIVE AddAll(_, _)
AddAll(ts, new) ==
    IF new = << >> THEN ts ELSE AddAll(AddTaskTo(ts, Head(new)), Tail(new))

RECURSIVE AddKeys(_, _)
AddKeys(ord, new) ==
    IF new = << >> THEN ord ELSE AddKeys(AddKey(ord, Head(new).id), Tail(new))

\* OrchestratorAgent.plan_project
PlanProject ==
    /\ Idle
    /\ Created
    /\ LET new == PlanTasks(Len(order) + 1)
       IN /\ Len(order) + Len(new) <= MaxPlanTasks
          /\ tasks' = AddAll(tasks, new)
          /\ order' = AddKeys(order, new)
    /\ Forget
    /\ UNCHANGED <<extVars, sysVars, phase, calls>>

\* execute_next_tasks, lines 120-122: snapshot the ready tasks
EnterExecute(who) ==
    /\ ready_tasks' = GetReadyTasks(tasks, order)
    /\ results' = << >>
    /\ i' = 1
    /\ caller' = who
    /\ status_at_call' = Statuses(tasks)
    /\ pc' = "exec_loop"

\* a direct call of execute_next_tasks
ExecuteNextTasks ==
    /\ Idle
    /\ Created
    /\ EnterExecute("api")
    /\ coord_result' = "none"
    /\ phase_at_call' = REQUIREMENTS
    /\ UNCHANGED <<extVars, sysVars, projVars, calls>>

\* line 126: mark the next task of the batch in progress
StartTask ==
    /\ pc = "exec_loop"
    /\ i <= Len(ready_tasks)
    /\ tasks' = UpdateTaskStatus(tasks, ready_tasks[i], IN_PROGRESS, NoResult)
    /\ pc' = "lookup"
    /\ UNCHANGED <<extVars, sysVars, order, phase, caller, ready_tasks, i, results, coord_result, histVars>>

\* lines 129-133: no agent registered for the task's role
AgentNotFound ==
    /\ pc = "lookup"
    /\ LET task == tasks[ready_tasks[i]]
       IN /\ task.assigned_to \notin agent_registry
          /\ tasks' = UpdateTaskStatus(tasks, task.id, FAILED, NoResult)
          /\ calls' = [t \in DOMAIN calls \cup {task.id} |->
                          IF t = task.id THEN [outcome |-> "no_agent", result |-> NoResult, invoked |-> 0]
                          ELSE calls[t]]
    /\ i' = i + 1
    /\ pc' = "exec_loop"
    /\ UNCHANGED <<extVars, sysVars, order, phase, caller, ready_tasks, results, coord_result, status_at_call, phase_at_call>>

\* lines 135-154: the agent is found and process_request is called
InvokeWorker ==
    /\ pc = "lookup"
    /\ tasks[ready_tasks[i]].assigned_to \in agent_registry
    /\ pc' = "worker"
    /\ UNCHANGED <<extVars, sysVars, projVars, caller, ready_tasks, i, results, coord_result, histVars>>

Record(cs, id, outcome, result) ==
    [t \in DOMAIN cs \cup {id} |->
        IF t = id
        THEN [outcome |-> outcome, result |-> result,
              invoked |-> IF id \in DOMAIN cs THEN cs[id].invoked + 1 ELSE 1]
        ELSE cs[t]]

\* mutant: the result is not stored on the task
TaskSucceededNoOutput(ts, task, result) == UpdateTaskStatus(ts, task.id, COMPLETED, NoResult)

\* lines 156-158, 163: the Worker returned a success result
TaskSucceeded(ts, task, result) == UpdateTaskStatus(ts, task.id, COMPLETED, result)

\* mutant: the task stays in progress after an error result
TaskFailedStillRunning(ts, task, result) == ts

\* lines 159-161, 163: the Worker returned another result
TaskFailed(ts, task, result) == UpdateTaskStatus(ts, task.id, FAILED, NoResult)

\* mutant: the exception leaves the task as it is
TaskRaisedUnrecorded(ts, task) == ts

\* lines 165-173: process_request raised
TaskRaised(ts, task) == UpdateTaskStatus(ts, task.id, FAILED, NoResult)

\* the Worker returns a result dict
WorkerReturns(outcome) ==
    /\ pc = "worker"
    /\ LET task == tasks[ready_tasks[i]]
           result == WorkerResult(task.assigned_to, outcome)
       IN /\ tasks' = IF result.status = "success"
                      THEN TaskSucceeded(tasks, task, result)
                      ELSE TaskFailed(tasks, task, result)
          /\ results' = Append(results, result)
          /\ calls' = Record(calls, task.id, outcome, result)
    /\ i' = i + 1
    /\ pc' = "exec_loop"
    /\ UNCHANGED <<extVars, sysVars, order, phase, caller, ready_tasks, coord_result, status_at_call, phase_at_call>>

\* the Worker raises an exception
WorkerRaises ==
    /\ pc = "worker"
    /\ LET task == tasks[ready_tasks[i]]
       IN /\ tasks' = TaskRaised(tasks, task)
          /\ results' = Append(results, ExceptionResult(task))
          /\ calls' = Record(calls, task.id, "raise", NoResult)
    /\ i' = i + 1
    /\ pc' = "exec_loop"
    /\ UNCHANGED <<extVars, sysVars, order, phase, caller, ready_tasks, coord_result, status_at_call, phase_at_call>>

\* line 175: return results
ExecuteReturn ==
    /\ pc = "exec_loop"
    /\ i > Len(ready_tasks)
    /\ pc' = IF caller = "api" THEN "exec_done" ELSE "coord_check"
    /\ UNCHANGED <<extVars, sysVars, projVars, caller, ready_tasks, i, results, coord_result, histVars>>

\* a call of coordinate_agents
CoordinateAgents ==
    /\ Idle
    /\ Created
    /\ pc' = "coord_loop"
    /\ caller' = "coordinate"
    /\ coord_result' = "none"
    /\ phase_at_call' = phase
    /\ ready_tasks' = << >>
    /\ i' = 1
    /\ results' = << >>
    /\ status_at_call' = << >>
    /\ UNCHANGED <<extVars, sysVars, projVars, calls>>

\* lines 213-225: nothing is ready and every task is completed or failed
CoordReturnTrue ==
    /\ pc = "coord_loop"
    /\ GetReadyTasks(tasks, order) = << >>
    /\ AllComplete(tasks)
    /\ phase' = PHASE_COMPLETED
    /\ coord_result' = "true"
    /\ pc' = "coord_done"
    /\ UNCHANGED <<extVars, sysVars, tasks, order, caller, ready_tasks, i, results, histVars>>

\* lines 226-229: nothing is ready and some task is not completed or failed
CoordReturnBlocked ==
    /\ pc = "coord_loop"
    /\ GetReadyTasks(tasks, order) = << >>
    /\ ~AllComplete(tasks)
    /\ coord_result' = "false"
    /\ pc' = "coord_done"
    /\ UNCHANGED <<extVars, sysVars, projVars, caller, ready_tasks, i, results, histVars>>

\* line 232: execute the next batch
CoordExecuteBatch ==
    /\ pc = "coord_loop"
    /\ GetReadyTasks(tasks, order) # << >>
    /\ EnterExecute("coordinate")
    /\ UNCHANGED <<extVars, sysVars, projVars, coord_result, phase_at_call, calls>>

\* lines 235-237: a result of the batch has status error
CoordCriticalError ==
    /\ pc = "coord_check"
    /\ AnyError(results)
    /\ coord_result' = "false"
    /\ pc' = "coord_done"
    /\ UNCHANGED <<extVars, sysVars, projVars, caller, ready_tasks, i, results, histVars>>

\* line 212: next iteration of the loop
CoordContinue ==
    /\ pc = "coord_check"
    /\ ~AnyError(results)
    /\ pc' = "coord_loop"
    /\ UNCHANGED <<extVars, sysVars, projVars, caller, ready_tasks, i, results, coord_result, histVars>>

Next ==
    \/ InitAgents
    \/ CreateProject
    \/ \E r \in TaskRoles : \E d \in DepChoices(Len(order) + 1) : AddTask(r, d)
    \/ PlanProject
    \/ ExecuteNextTasks
    \/ StartTask
    \/ AgentNotFound
    \/ InvokeWorker
    \/ \E o \in WorkerOutcomes : WorkerReturns(o)
    \/ WorkerRaises
    \/ ExecuteReturn
    \/ CoordinateAgents
    \/ CoordReturnTrue
    \/ CoordReturnBlocked
    \/ CoordExecuteBatch
    \/ CoordCriticalError
    \/ CoordContinue

Spec == Init /\ [][Next]_vars

\* ------------------------------------------------------------------------
\* ProjectState on its own: a project state is built from Task objects of any
\* status (as load_from_file does) and get_ready_tasks is called on it
\* ------------------------------------------------------------------------

\* the dependency lists of the task that gets id n: earlier tasks and the
\* dangling id, at most two of them
StateDepChoices(n) == {D \in SUBSET (0..(n - 1)) : Cardinality(D) <= 2}

\* state.tasks[task_id] = Task(..., status=..., dependencies=...)
StateAddTask(status, dependencies) ==
    /\ pc \in {"idle", "ready_returned"}
    /\ Len(order) < MaxStateTasks
    /\ LET id == Len(order) + 1
           task == Task(id, TaskNames[id], "Agent1", status, dependencies)
       IN /\ tasks' = AddTaskTo(tasks, task)
          /\ order' = AddKey(order, id)
    /\ ready_tasks' = << >>
    /\ pc' = "idle"
    /\ UNCHANGED <<extVars, sysVars, phase, caller, i, results, coord_result, histVars>>

\* a call of ProjectState.get_ready_tasks
StateGetReadyTasks ==
    /\ pc = "idle"
    /\ ready_tasks' = GetReadyTasks(tasks, order)
    /\ pc' = "ready_returned"
    /\ UNCHANGED <<extVars, sysVars, projVars, caller, i, results, coord_result, histVars>>

NextState ==
    \/ \E s \in TaskStatus : \E d \in StateDepChoices(Len(order) + 1) : StateAddTask(s, d)
    \/ StateGetReadyTasks

SpecState == Init /\ [][NextState]_vars

\* ------------------------------------------------------------------------
\* Two callers of coordinate_agents on the same project.  The orchestrator
\* holds no lock (agents/orchestrator.py has none, and neither have its
\* callers MultiAgentSystem.process_development_request and
\* cloud_api.develop_project_async), so the steps of the two calls interleave
\* at every point where the interpreter may switch threads.
\* ------------------------------------------------------------------------

\* the concurrent callers
Threads == {"t1", "t2"}

\* the locals of a call of coordinate_agents that has just been entered
ThreadEntered == [pc |-> "coord_loop", ready_tasks |-> << >>, i |-> 1, results |-> << >>, ret |-> "none"]

\* the setup of the project is over once a caller is inside coordinate_agents
NoThread == threads = << >>

\* a thread enters coordinate_agents (lines 204-210)
ThreadCoordinate(th) ==
    /\ Idle
    /\ Created
    /\ order # << >>
    /\ th \notin DOMAIN threads
    /\ threads' = [x \in DOMAIN threads \cup {th} |-> IF x = th THEN ThreadEntered ELSE threads[x]]
    /\ UNCHANGED <<notThreads, sysVars, projVars, callVars, histVars>>

\* lines 213-225 in a thread: nothing is ready and every task is completed or failed
ThreadReturnTrue(th) ==
    /\ th \in DOMAIN threads
    /\ threads[th].pc = "coord_loop"
    /\ GetReadyTasks(tasks, order) = << >>
    /\ AllComplete(tasks)
    /\ phase' = PHASE_COMPLETED
    /\ threads' = [threads EXCEPT ![th].pc = "coord_done", ![th].ret = "true"]
    /\ UNCHANGED <<notThreads, sysVars, tasks, order, callVars, histVars>>

\* lines 226-229 in a thread
ThreadReturnBlocked(th) ==
    /\ th \in DOMAIN threads
    /\ threads[th].pc = "coord_loop"
    /\ GetReadyTasks(tasks, order) = << >>
    /\ ~AllComplete(tasks)
    /\ threads' = [threads EXCEPT ![th].pc = "coord_done", ![th].ret = "false"]
    /\ UNCHANGED <<notThreads, sysVars, projVars, callVars, histVars>>

\* lines 213-214, 232 in a thread: something is ready, execute_next_tasks is called
ThreadCallExecute(th) ==
    /\ th \in DOMAIN threads
    /\ threads[th].pc = "coord_loop"
    /\ GetReadyTasks(tasks, order) # << >>
    /\ threads' = [threads EXCEPT ![th].pc = "exec_enter"]
    /\ UNCHANGED <<notThreads, sysVars, projVars, callVars, histVars>>

\* lines 120-122 in a thread: execute_next_tasks takes its own snapshot
ThreadEnterExecute(th) ==
    /\ th \in DOMAIN threads
    /\ threads[th].pc = "exec_enter"
    /\ threads' = [threads EXCEPT ![th].pc = "exec_loop",
                                  ![th].ready_tasks = GetReadyTasks(tasks, order),
                                  ![th].i = 1,
                                  ![th].results = << >>]
    /\ UNCHANGED <<notThreads, sysVars, projVars, callVars, histVars>>

\* line 126 in a thread: the status is written whatever it is by now
ThreadStartTask(th) ==
    /\ th \in DOMAIN threads
    /\ threads[th].pc = "exec_loop"
    /\ threads[th].i <= Len(threads[th].ready_tasks)
    /\ tasks' = UpdateTaskStatus(tasks, threads[th].ready_tasks[threads[th].i], IN_PROGRESS, NoResult)
    /\ threads' = [threads EXCEPT ![th].pc = "lookup"]
    /\ UNCHANGED <<notThreads, sysVars, order, phase, callVars, histVars>>

\* lines 129-133 in a thread
ThreadAgentNotFound(th) ==
    /\ th \in DOMAIN threads
    /\ threads[th].pc = "lookup"
    /\ LET task == tasks[threads[th].ready_tasks[threads[th].i]]
       IN /\ task.assigned_to \notin agent_registry
          /\ tasks' = UpdateTaskStatus(tasks, task.id, FAILED, NoResult)
    /\ threads' = [threads EXCEPT ![th].pc = "exec_loop", ![th].i = @ + 1]
    /\ UNCHANGED <<notThreads, sysVars, order, phase, callVars, histVars>>

\* lines 135-154 in a thread: process_request is called and blocks on the model's reply
ThreadInvokeWorker(th) ==
    /\ th \in DOMAIN threads
    /\ threads[th].pc = "lookup"
    /\ tasks[threads[th].ready_tasks[threads[th].i]].assigned_to \in agent_registry
    /\ threads' = [threads EXCEPT ![th].pc = "worker"]
    /\ UNCHANGED <<notThreads, sysVars, projVars, callVars, histVars>>

\* lines 156-163 in a thread
ThreadWorkerReturns(th, outcome) ==
    /\ th \in DOMAIN threads
    /\ threads[th].pc = "worker"
    /\ LET task == tasks[threads[th].ready_tasks[threads[th].i]]
           result == WorkerResult(task.assigned_to, outcome)
       IN /\ tasks' = IF result.status = "success"
                      THEN TaskSucceeded(tasks, task, result)
                      ELSE TaskFailed(tasks, task, result)
          /\ threads' = [threads EXCEPT ![th].pc = "exec_loop", ![th].i = @ + 1,
                                        ![th].results = Append(@, result)]
          /\ calls' = Record(calls, task.id, outcome, result)
    /\ UNCHANGED <<notThreads, sysVars, order, phase, callVars, status_at_call, phase_at_call>>

\* line 175 and lines 235-237 in a thread
ThreadCriticalError(th) ==
    /\ th \in DOMAIN threads
    /\ threads[th].pc = "exec_loop"
    /\ threads[th].i > Len(threads[th].ready_tasks)
    /\ AnyError(threads[th].results)
    /\ threads' = [threads EXCEPT ![th].pc = "coord_done", ![th].ret = "false"]
    /\ UNCHANGED <<notThreads, sysVars, projVars, callVars, histVars>>

\* line 175 and line 212 in a thread
ThreadContinue(th) ==
    /\ th \in DOMAIN threads
    /\ threads[th].pc = "exec_loop"
    /\ threads[th].i > Len(threads[th].ready_tasks)
    /\ ~AnyError(threads[th].results)
    /\ threads' = [threads EXCEPT ![th].pc = "coord_loop"]
    /\ UNCHANGED <<notThreads, sysVars, projVars, callVars, histVars>>

NextConc ==
    \/ NoThread /\ InitAgents
    \/ NoThread /\ CreateProject
    \/ NoThread /\ PlanProject
    \/ \E th \in Threads : ThreadCoordinate(th)
    \/ \E th \in Threads : ThreadReturnTrue(th)
    \/ \E th \in Threads : ThreadReturnBlocked(th)
    \/ \E th \in Threads : ThreadCallExecute(th)
    \/ \E th \in Threads : ThreadEnterExecute(th)
    \/ \E th \in Threads : ThreadStartTask(th)
    \/ \E th \in Threads : ThreadAgentNotFound(th)
    \/ \E th \in Threads : ThreadInvokeWorker(th)
    \/ \E th \in Threads : \E o \in WorkerOutcomes : ThreadWorkerReturns(th, o)
    \/ \E th \in Threads : ThreadCriticalError(th)
    \/ \E th \in Threads : ThreadContinue(th)

SpecConc == Init /\ [][NextConc]_vars

\* ------------------------------------------------------------------------
\* The orchestrator as MultiAgentSystem and the API drive it: projects get
\* their tasks from plan_project only (possibly more than once), are executed
\* through execute_next_tasks / coordinate_agents and are inspected through
\* get_project_status.
\* ------------------------------------------------------------------------

\* plan_project called on a project whatever tasks it already has (line 117
\* only requires the project to exist)
PlanProjectRepeated ==
    /\ Idle
    /\ Created
    /\ Len(order) < MaxPlans * Len(PlanTasks(1))
    /\ LET new == PlanTasks(Len(order) + 1)
       IN /\ tasks' = AddAll(tasks, new)
          /\ order' = AddKeys(order, new)
    /\ Forget
    /\ UNCHANGED <<extVars, sysVars, phase, calls>>

\* the keys of the dict status_counts (lines 185-190)
StatusKeys == {PENDING, IN_PROGRESS, COMPLETED, FAILED}

\* mutant: failed tasks are counted as completed ones
StatusCountsFinished(ts) ==
    [s \in StatusKeys |->
        Cardinality({t \in DOMAIN ts : ts[t].status = s \/ (s = COMPLETED /\ ts[t].status = FAILED)})]

\* the loop of lines 192-193 over a project whose statuses are all keys
StatusCounts(ts) ==
    [s \in StatusKeys |-> Cardinality({t \in DOMAIN ts : ts[t].status = s})]

\* status_counts["completed"] / len(project.tasks) * 100: the quotient, kept
\* exact as numerator and denominator
Percentage(completed, total) == [num |-> completed * 100, den |-> total]

\* the literal 0 reported for a project without tasks
ZeroPercent == [num |-> 0, den |-> 1]

\* what get_project_status returns or raises
StatusReport(ts, ph) ==
    IF \E t \in DOMAIN ts : ts[t].status \notin StatusKeys
    THEN [raised |-> "KeyError"]
    ELSE [raised |-> None,
          project_id |-> ProjectId,
          phase |-> ph,
          task_summary |-> StatusCounts(ts),
          total_tasks |-> Cardinality(DOMAIN ts),
          progress_percentage |->
              IF DOMAIN ts # {}
              THEN Percentage(StatusCounts(ts)[COMPLETED], Cardinality(DOMAIN ts))
              ELSE ZeroPercent]

\* no report is held by the caller
NoStatus == [raised |-> "none"]

\* OrchestratorAgent.get_project_status
GetProjectStatus ==
    /\ Idle
    /\ project_status' = IF Created THEN StatusReport(tasks, phase) ELSE [raised |-> "ValueError"]
    /\ pc' = "status_done"
    /\ UNCHANGED <<notStatus, sysVars, projVars, caller, ready_tasks, i, results, coord_result, histVars>>

\* the caller has consumed the report
StatusReturn ==
    /\ pc = "status_done"
    /\ project_status' = NoStatus
    /\ pc' = "idle"
    /\ UNCHANGED <<notStatus, sysVars, projVars, caller, ready_tasks, i, results, coord_result, histVars>>

\* datetime.isoformat(): the text of a timestamp
IsoFormat(t) == <<"iso", t>>

\* TaskStatus.value / ProjectPhase.value: the string of an enum member
EnumValue(e) == <<"value", e>>

\* TaskStatus(value) / ProjectPhase(value): the member of a string
EnumOf(v) == v[2]

\* Task.to_dict
TaskToDict(task) ==
    [id |-> task.id, name |-> task.name, assigned_to |-> task.assigned_to,
     status |-> EnumValue(task.status),
     dependencies |-> task.dependencies,
     created_at |-> IsoFormat(task.created_at),
     completed_at |-> IF task.completed_at # None THEN IsoFormat(task.completed_at) ELSE None,
     output |-> task.output, error |-> task.error]

\* the ProjectState object of the project
ProjectState ==
    [project_id |-> ProjectId, tasks |-> tasks, order |-> order, phase |-> phase, created_at |-> CreatedAt]

\* ProjectState.to_dict
ToDict(state) ==
    [project_id |-> state.project_id,
     tasks |-> [t \in DOMAIN state.tasks |-> TaskToDict(state.tasks[t])],
     order |-> state.order,
     phase |-> EnumValue(state.phase),
     created_at |-> IsoFormat(state.created_at)]

\* the Task(...) call of load_from_file (lines 163-172): created_at and
\* completed_at are not passed and take their defaults
TaskFromDict(task_data, now) ==
    [Task(task_data.id, task_data.name, task_data.assigned_to,
          EnumOf(task_data.status), task_data.dependencies)
        EXCEPT !.created_at = now, !.output = task_data.output, !.error = task_data.error]

\* the ProjectState load_from_file builds from a document: created_at is not
\* passed to cls(...) (lines 152-160)
FromDict(data, now) ==
    [project_id |-> data.project_id,
     tasks |-> [t \in DOMAIN data.tasks |-> TaskFromDict(data.tasks[t], now)],
     order |-> data.order,
     phase |-> EnumOf(data.phase),
     created_at |-> now]

\* ProjectState.save_to_file
SaveToFile ==
    /\ Idle
    /\ Created
    /\ file' = ToDict(ProjectState)
    /\ pc' = "saved"
    /\ UNCHANGED <<notFile, loaded, sysVars, projVars, caller, ready_tasks, i, results, coord_result, histVars>>

\* ProjectState.load_from_file on the file just written
LoadFromFile(now) ==
    /\ pc = "saved"
    /\ loaded' = FromDict(file, now)
    /\ pc' = "loaded"
    /\ UNCHANGED <<notFile, file, sysVars, projVars, caller, ready_tasks, i, results, coord_result, histVars>>

\* the caller drops the loaded copy
LoadReturn ==
    /\ pc = "loaded"
    /\ file' = "none"
    /\ loaded' = "none"
    /\ pc' = "idle"
    /\ UNCHANGED <<notFile, sysVars, projVars, caller, ready_tasks, i, results, coord_result, histVars>>

NextPlan ==
    \/ InitAgents
    \/ CreateProject
    \/ PlanProjectRepeated
    \/ ExecuteNextTasks
    \/ StartTask
    \/ AgentNotFound
    \/ InvokeWorker
    \/ \E o \in WorkerOutcomes : WorkerReturns(o)
    \/ WorkerRaises
    \/ ExecuteReturn
    \/ CoordinateAgents
    \/ CoordReturnTrue
    \/ CoordReturnBlocked
    \/ CoordExecuteBatch
    \/ CoordCriticalError
    \/ CoordContinue
    \/ GetProjectStatus
    \/ StatusReturn
    \/ SaveToFile
    \/ \E now \in LoadTimes : LoadFromFile(now)
    \/ LoadReturn

SpecPlan == Init /\ [][NextPlan]_vars

\* ------------------------------------------------------------------------
\* services/project_service.py and models/database.py: the artifacts table
\* written through ProjectService.save_artifact
\* ------------------------------------------------------------------------

\* the projects artifacts are saved for
ArtifactProjects == {"p1", "p2"}

\* the paths and contents handed to save_artifact
ArtifactPaths == {"app.py", "README.md"}
ArtifactContents == {"v1", "v2"}

\* Artifact(project_id=..., type=..., path=..., content=...) after the commit:
\* a fresh id, version from the column default (models/database.py line 111)
Artifact(id, project_id, artifact_type, path, content) ==
    [id |-> id, project_id |-> project_id, type |-> artifact_type, path |-> path,
     content |-> content, version |-> 1]

\* the rows session.query(Artifact).filter(project_id == .., path == ..) selects
MatchingRows(rows, project_id, path) ==
    {k \in 1..Len(rows) : rows[k].project_id = project_id /\ rows[k].path = path}

\* mutant: the content is replaced but the version is left as it is
UpdateExistingKeepVersion(existing, content) == [existing EXCEPT !.content = content]

\* lines 145-147: the existing row gets the new content and the next version
UpdateExisting(existing, content) ==
    [existing EXCEPT !.content = content, !.version = @ + 1]

\* ProjectService.save_artifact
SaveArtifact(project_id, artifact_type, path, content) ==
    /\ Len(saves) < MaxSaves
    /\ LET found == MatchingRows(artifacts, project_id, path)
       IN IF found # {}
          THEN \E k \in found :
                  artifacts' = [artifacts EXCEPT ![k] = UpdateExisting(@, content)]
          ELSE artifacts' = Append(artifacts,
                                   Artifact(Len(artifacts) + 1, project_id, artifact_type, path, content))
    /\ saves' = Append(saves, [project_id |-> project_id, path |-> path, content |-> content])
    /\ UNCHANGED <<notArtifacts, sysVars, projVars, callVars, histVars>>

NextArtifacts ==
    \E p \in ArtifactProjects : \E path \in ArtifactPaths : \E c \in ArtifactContents :
        SaveArtifact(p, "code", path, c)

SpecArtifacts == Init /\ [][NextArtifacts]_vars

\* ------------------------------------------------------------------------
\* utils/code_generator.py: CodeGenerator.extract_code_blocks.  The text is
\* modelled as a sequence of markdown blocks separated by blank lines, each
\* block a closed code fence with or without a filename marker:
\*   tagged  ```python:<name>\n<code>```
\*   bold    **<name>**\n```python\n<code>```
\*   bare    <name>\n```python\n<code>```
\*   plain   ```python\n<code>```
\* ------------------------------------------------------------------------

BlockKinds == {"tagged", "bold", "bare", "plain"}

\* filenames as they are spelled in the text
RawNames == {"app.py", " app.py", "util.py"}

\* the text between the opening line of a fence and its closing backticks
RawCodes == {"A\n", "B\n"}

\* the blocks a text is made of; a plain block carries no filename
Blocks ==
    [kind : BlockKinds \ {"plain"}, name : RawNames, code : RawCodes]
        \cup [kind : {"plain"}, name : {""}, code : RawCodes]

\* str.strip() on the strings of the model
Strip(s) ==
    CASE s = " app.py" -> "app.py"
      [] s = "A\n" -> "A"
      [] s = "B\n" -> "B"
      [] OTHER -> s

\* re.finditer(pattern1, text): the tagged fences, in text order
Matches1(t) == SelectSeq(t, LAMBDA b : b.kind = "tagged")

\* re.finditer(pattern2, text): the fences that follow a bold filename
Matches2(t) == SelectSeq(t, LAMBDA b : b.kind = "bold")

\* re.finditer(pattern3, text): the fences that follow a filename on a line of
\* its own; the pattern starts with a newline, which the first block lacks
Matches3(t) ==
    IF t = << >> THEN << >> ELSE SelectSeq(Tail(t), LAMBDA b : b.kind = "bare")

\* files[filename] = code
Assign(fs, filename, code) ==
    [f \in DOMAIN fs \cup {filename} |-> IF f = filename THEN code ELSE fs[f]]

\* mutant: a later heuristic overwrites the path
AssignOverwriting(fs, filename, code) ==
    [f \in DOMAIN fs \cup {filename} |-> IF f = filename THEN code ELSE fs[f]]

\* if filename not in files: files[filename] = code
AssignIfAbsent(fs, filename, code) ==
    IF filename \in DOMAIN fs THEN fs ELSE Assign(fs, filename, code)

\* the loop over matches1 (lines 68-71)
RECURSIVE Loop1(_, _)
Loop1(fs, matches) ==
    IF matches = << >> THEN fs
    ELSE Loop1(Assign(fs, Strip(Head(matches).name), Strip(Head(matches).code)), Tail(matches))

\* the loops over matches2 and matches3 (lines 76-80 and 86-90)
RECURSIVE Loop23(_, _)
Loop23(fs, matches) ==
    IF matches = << >> THEN fs
    ELSE Loop23(AssignIfAbsent(fs, Strip(Head(matches).name), Strip(Head(matches).code)), Tail(matches))

\* the dict extract_code_blocks returns for a text
CodeBlocks(t) == Loop23(Loop23(Loop1(<< >>, Matches1(t)), Matches2(t)), Matches3(t))

\* extract_code_blocks has not been called
NotExtracted == [returned |-> FALSE, files |-> << >>]

\* the generated response gets one more block
WriteBlock(b) ==
    /\ ~extracted.returned
    /\ Len(text) < MaxBlocks
    /\ text' = Append(text, b)
    /\ UNCHANGED <<extracted, notExtract, sysVars, projVars, callVars, histVars>>

\* CodeGenerator.extract_code_blocks
ExtractCodeBlocks ==
    /\ ~extracted.returned
    /\ extracted' = [returned |-> TRUE, files |-> CodeBlocks(text)]
    /\ UNCHANGED <<text, notExtract, sysVars, projVars, callVars, histVars>>

NextExtract ==
    \/ \E b \in Blocks : WriteBlock(b)
    \/ ExtractCodeBlocks

SpecExtract == Init /\ [][NextExtract]_vars

\* ------------------------------------------------------------------------
\* utils/code_generator.py: parse_file_structure, write_files and
\* generate_project_from_agent_output, for the output of one agent.  A dict
\* of files is a record of its keys in insertion order and its values.
\* ------------------------------------------------------------------------

\* possible_keys, in the order the loop tries them (lines 106-112)
PossibleKeys == <<"response", "generated_code", "code", "files", "output">>

\* {}
EmptyDict == [keys |-> << >>, val |-> << >>]

\* dict.update: the values of e replace those of d, new keys go to the end
DictUpdate(d, e) ==
    [keys |-> d.keys \o SelectSeq(e.keys, LAMBDA k : k \notin Range(d.keys)),
     val |-> [f \in Range(d.keys) \cup Range(e.keys) |->
                 IF f \in Range(e.keys) THEN e.val[f] ELSE d.val[f]]]

\* the first occurrences of the elements of a sequence, in order
RECURSIVE FirstOccurrences(_)
FirstOccurrences(s) ==
    IF s = << >> THEN << >>
    ELSE LET init == FirstOccurrences(SubSeq(s, 1, Len(s) - 1))
         IN IF s[Len(s)] \in Range(init) THEN init ELSE Append(init, s[Len(s)])

\* the filenames of the matches of the three patterns, in the order in which
\* extract_code_blocks visits them
MatchedNames(t) ==
    LET matches == Matches1(t) \o Matches2(t) \o Matches3(t)
    IN [k \in 1..Len(matches) |-> Strip(matches[k].name)]

\* the dict extract_code_blocks returns, with its key order
ExtractedDict(t) == [keys |-> FirstOccurrences(MatchedNames(t)), val |-> CodeBlocks(t)]

\* the values found under the keys of an agent output: a dict of strings, a
\* string, or a value that is neither (a list, a dict with other values)
FieldContents ==
    { [type |-> "dict", files |-> [keys |-> <<"app.py">>, val |-> [f \in {"app.py"} |-> "M"]], text |-> << >>],
      [type |-> "str", files |-> EmptyDict,
       text |-> <<[kind |-> "tagged", name |-> "app.py", code |-> "A\n"]>>],
      [type |-> "str", files |-> EmptyDict,
       text |-> <<[kind |-> "bold", name |-> "util.py", code |-> "B\n"]>>],
      [type |-> "other", files |-> EmptyDict, text |-> << >>] }

\* the values of the key basic_files
BasicFiles ==
    { [type |-> "dict", files |-> [keys |-> <<"app.py">>, val |-> [f \in {"app.py"} |-> "F"]], text |-> << >>] }

\* the body of the loop over possible_keys for one key (lines 114-127)
ParseKey(files, output, key) ==
    IF key \notin DOMAIN output THEN files
    ELSE IF output[key].type = "dict" THEN DictUpdate(files, output[key].files)
    ELSE IF output[key].type = "str" THEN DictUpdate(files, ExtractedDict(output[key].text))
    ELSE files

RECURSIVE ParseKeys(_, _, _)
ParseKeys(files, output, keys) ==
    IF keys = << >> THEN files
    ELSE ParseKeys(ParseKey(files, output, Head(keys)), output, Tail(keys))

\* what parse_file_structure returns for an agent output
FileStructure(output) ==
    LET files == ParseKeys(EmptyDict, output, PossibleKeys)
    IN IF "basic_files" \in DOMAIN output
       THEN DictUpdate(files, output["basic_files"].files)
       ELSE files

\* the agent output gets one more key
SetField(key, content) ==
    /\ ~parsed.returned
    /\ key \notin DOMAIN agent_output
    /\ agent_output' = [k \in DOMAIN agent_output \cup {key} |->
                           IF k = key THEN content ELSE agent_output[k]]
    /\ UNCHANGED <<parsed, todo, disk, written_files, failed, generated>>
    /\ UNCHANGED <<notGenerate, sysVars, projVars, callVars, histVars>>

\* generate_project_from_agent_output, lines 193-210: parse_file_structure on
\* the output, then write_files is entered
ParseFileStructure ==
    /\ ~parsed.returned
    /\ parsed' = [returned |-> TRUE, files |-> FileStructure(agent_output)]
    /\ todo' = FileStructure(agent_output).keys
    /\ UNCHANGED <<agent_output, disk, written_files, failed, generated>>
    /\ UNCHANGED <<notGenerate, sysVars, projVars, callVars, histVars>>

\* what a write_file that raises may leave at the path: nothing, or a file
\* opened for writing and not filled
FailureModes == {"nothing", "truncated"}

\* mutant: a failed write ends the loop
AfterWriteErrorAbort(paths) == << >>

\* the except branch of write_files (lines 173-174): log, go on with the next path
AfterWriteError(paths) == Tail(paths)

\* write_file succeeds for the next path (lines 169-172)
WriteFile ==
    /\ parsed.returned
    /\ ~generated.returned
    /\ todo # << >>
    /\ LET filepath == Head(todo)
       IN /\ disk' = [f \in DOMAIN disk \cup {filepath} |->
                         IF f = filepath THEN parsed.files.val[filepath] ELSE disk[f]]
          /\ written_files' = Append(written_files, filepath)
    /\ todo' = Tail(todo)
    /\ UNCHANGED <<agent_output, parsed, failed, generated>>
    /\ UNCHANGED <<notGenerate, sysVars, projVars, callVars, histVars>>

\* write_file raises for the next path (lines 173-174)
WriteFileFails(mode) ==
    /\ parsed.returned
    /\ ~generated.returned
    /\ todo # << >>
    /\ LET filepath == Head(todo)
       IN /\ disk' = IF mode = "truncated"
                     THEN [f \in DOMAIN disk \cup {filepath} |-> IF f = filepath THEN "" ELSE disk[f]]
                     ELSE disk
          /\ failed' = failed \cup {filepath}
    /\ todo' = AfterWriteError(todo)
    /\ UNCHANGED <<agent_output, parsed, written_files, generated>>
    /\ UNCHANGED <<notGenerate, sysVars, projVars, callVars, histVars>>

\* generate_project_from_agent_output, lines 212-222: the result dict
GenerateReturn ==
    /\ parsed.returned
    /\ ~generated.returned
    /\ todo = << >>
    /\ generated' = [returned |-> TRUE,
                     files_generated |-> Len(written_files),
                     file_list |-> written_files,
                     success |-> Len(written_files) > 0]
    /\ UNCHANGED <<agent_output, parsed, todo, disk, written_files, failed>>
    /\ UNCHANGED <<notGenerate, sysVars, projVars, callVars, histVars>>

NextGenerate ==
    \/ \E k \in Range(PossibleKeys) : \E c \in FieldContents : SetField(k, c)
    \/ \E c \in BasicFiles : SetField("basic_files", c)
    \/ ParseFileStructure
    \/ WriteFile
    \/ \E m \in FailureModes : WriteFileFails(m)
    \/ GenerateReturn

SpecGenerate == Init /\ [][NextGenerate]_vars

\* ------------------------------------------------------------------------
\* Task graphs of any shape: the caller registers Task objects whose id and
\* dependencies it chooses itself (ids are plain strings), so a task may name
\* itself, a task registered later or an id already in use; the project is
\* then executed as in Spec.
\* ------------------------------------------------------------------------

\* the ids the caller chooses from
GraphIds == 1..MaxGraphTasks

\* the dependency lists the caller chooses from: none, the dangling id or one
\* id of the graph
GraphDepChoices == {D \in SUBSET ({DanglingId} \cup GraphIds) : Cardinality(D) <= 1}

\* project.add_task(Task(id, ...)) with an id and dependencies of the
\* caller's choice; the caller uses an id again only while no Worker has been
\* invoked for a task of that id
GraphAddTask(id, assigned_to, dependencies) ==
    /\ Idle
    /\ Created
    /\ id \in DOMAIN calls => calls[id].invoked = 0
    /\ LET task == Task(id, TaskNames[id], assigned_to, PENDING, dependencies)
       IN /\ tasks' = AddTaskTo(tasks, task)
          /\ order' = AddKey(order, id)
    /\ Forget
    /\ UNCHANGED <<extVars, sysVars, phase, calls>>

NextGraph ==
    \/ InitAgents
    \/ CreateProject
    \/ \E id \in GraphIds : \E d \in GraphDepChoices : GraphAddTask(id, "ProductManager", d)
    \/ StartTask
    \/ AgentNotFound
    \/ InvokeWorker
    \/ \E o \in WorkerOutcomes : WorkerReturns(o)
    \/ WorkerRaises
    \/ ExecuteReturn
    \/ CoordinateAgents
    \/ CoordReturnTrue
    \/ CoordReturnBlocked
    \/ CoordExecuteBatch
    \/ CoordCriticalError
    \/ CoordContinue

SpecGraph == Init /\ [][NextGraph]_vars

\* the steps a call of execute_next_tasks / coordinate_agents takes by itself
\* once it has been entered; every process_request returns or raises
SchedulerStep ==
    \/ StartTask
    \/ AgentNotFound
    \/ InvokeWorker
    \/ \E o \in WorkerOutcomes : WorkerReturns(o)
    \/ WorkerRaises
    \/ ExecuteReturn
    \/ CoordReturnTrue
    \/ CoordReturnBlocked
    \/ CoordExecuteBatch
    \/ CoordCriticalError
    \/ CoordContinue

\* the same system with a call that keeps running until it returns
SpecGraphFair == Init /\ [][NextGraph]_vars /\ WF_vars(SchedulerStep)

\* ------------------------------------------------------------------------
\* Calls with a project id of the caller's choice: every operation of the
\* orchestrator that takes a project id looks it up first.
\* ------------------------------------------------------------------------

\* an id create_project never returned
UnknownId == "p0"

\* the ids a caller passes
ProjectIds == {ProjectId, UnknownId}

\* the operations that take a project id
Operations == {"plan_project", "execute_next_tasks", "get_project_status", "coordinate_agents"}

NoCall == [op |-> None, project_id |-> None, error |-> None]

\* the call the caller made, with no exception so far
Called(op, project_id) == [op |-> op, project_id |-> project_id, error |-> None]

\* mutant: an id that is not found falls back to the project that exists
KnownOrDefault(states, project_id) == states # {}

\* lines 48, 117, 179, 206: project_id in self.project_states
Known(states, project_id) == project_id \in states

\* lines 49, 118, 180, 207: raise ValueError(f"Project {project_id} not found")
RaiseValueError(op, project_id) ==
    /\ raised' = [op |-> op, project_id |-> project_id, error |-> "ValueError"]
    /\ pc' = "raised"
    /\ UNCHANGED <<notRaised, sysVars, projVars, caller, ready_tasks, i, results, coord_result, histVars>>

\* OrchestratorAgent.plan_project(project_id)
PlanProjectOf(project_id) ==
    /\ Idle
    /\ IF Known(project_states, project_id)
       THEN /\ LET new == PlanTasks(Len(order) + 1)
               IN /\ Len(order) + Len(new) <= MaxPlanTasks
                  /\ tasks' = AddAll(tasks, new)
                  /\ order' = AddKeys(order, new)
            /\ raised' = Called("plan_project", project_id)
            /\ Forget
            /\ UNCHANGED <<notRaised, sysVars, phase, calls>>
       ELSE RaiseValueError("plan_project", project_id)

\* OrchestratorAgent.execute_next_tasks(project_id)
ExecuteNextTasksOf(project_id) ==
    /\ Idle
    /\ IF Known(project_states, project_id)
       THEN /\ EnterExecute("api")
            /\ coord_result' = "none"
            /\ phase_at_call' = REQUIREMENTS
            /\ raised' = Called("execute_next_tasks", project_id)
            /\ UNCHANGED <<notRaised, sysVars, projVars, calls>>
       ELSE RaiseValueError("execute_next_tasks", project_id)

\* OrchestratorAgent.get_project_status(project_id)
GetProjectStatusOf(project_id) ==
    /\ Idle
    /\ IF Known(project_states, project_id)
       THEN /\ project_status' = StatusReport(tasks, phase)
            /\ pc' = "status_done"
            /\ raised' = Called("get_project_status", project_id)
            /\ UNCHANGED <<notStatusRaised, sysVars, projVars, caller, ready_tasks, i, results, coord_result, histVars>>
       ELSE RaiseValueError("get_project_status", project_id)

\* OrchestratorAgent.coordinate_agents(project_id)
CoordinateAgentsOf(project_id) ==
    /\ Idle
    /\ IF Known(project_states, project_id)
       THEN /\ pc' = "coord_loop"
            /\ caller' = "coordinate"
            /\ coord_result' = "none"
            /\ phase_at_call' = phase
            /\ ready_tasks' = << >>
            /\ i' = 1
            /\ results' = << >>
            /\ status_at_call' = << >>
            /\ raised' = Called("coordinate_agents", project_id)
            /\ UNCHANGED <<notRaised, sysVars, projVars, calls>>
       ELSE RaiseValueError("coordinate_agents", project_id)

\* the caller has caught the exception
RaiseReturn ==
    /\ pc = "raised"
    /\ raised' = NoCall
    /\ Forget
    /\ UNCHANGED <<notRaised, sysVars, projVars, calls>>

\* the text of an agent's current_task: a prefix and what follows it
CurrentTask(prefix, detail) == [prefix |-> prefix, detail |-> detail]

\* get_system_status, line 109: getattr(agent, 'status', 'ready'); no agent
\* class defines the attribute and execute_next_tasks never assigns it
AgentStatus(agent_name) == "ready"

\* get_system_status, line 110: getattr(agent, 'current_task', ''); no agent
\* class defines the attribute and execute_next_tasks never assigns it
AgentCurrentTask(agent_name) == CurrentTask("", "")

NextApi ==
    \/ InitAgents
    \/ CreateProject
    \/ \E id \in ProjectIds : PlanProjectOf(id)
    \/ \E id \in ProjectIds : ExecuteNextTasksOf(id)
    \/ \E id \in ProjectIds : GetProjectStatusOf(id)
    \/ \E id \in ProjectIds : CoordinateAgentsOf(id)
    \/ RaiseReturn
    \/ StatusReturn
    \/ StartTask
    \/ AgentNotFound
    \/ InvokeWorker
    \/ \E o \in WorkerOutcomes : WorkerReturns(o)
    \/ WorkerRaises
    \/ ExecuteReturn
    \/ CoordReturnTrue
    \/ CoordReturnBlocked
    \/ CoordExecuteBatch
    \/ CoordCriticalError
    \/ CoordContinue

SpecApi == Init /\ [][NextApi]_vars

\* ------------------------------------------------------------------------
\* The context a Worker is called with: the caller registers tasks with names
\* of its choice and any number of dependencies on earlier tasks, and runs
\* execute_next_tasks.
\* ------------------------------------------------------------------------

\* the task names the caller chooses from; names need not be unique
ContextNames == {"Build", "Ship"}

\* create_project: requirements={"raw": requirements}
Requirements == [raw |-> "requirements"]

\* ProjectState.architecture, never assigned by the orchestrator
Architecture == << >>

\* context[f"dependency_{dep_task.name}"] = dep_task.output
SetDependency(dependency, name, output) ==
    [n \in DOMAIN dependency \cup {name} |-> IF n = name THEN output ELSE dependency[n]]

\* lines 148-151: the loop over task.dependencies, in list order
RECURSIVE DependencyOutputs(_, _, _)
DependencyOutputs(dependency, ts, deps) ==
    IF deps = << >>
    THEN dependency
    ELSE LET dep_id == Head(deps)
         IN IF dep_id \in DOMAIN ts /\ ts[dep_id].output # NoResult
            THEN DependencyOutputs(SetDependency(dependency, ts[dep_id].name, ts[dep_id].output), ts, Tail(deps))
            ELSE DependencyOutputs(dependency, ts, Tail(deps))

\* lines 140-151: the context passed to process_request; the keys
\* dependency_<name> are the field dependency, a mapping from <name>; the
\* dependencies of a task are listed in insertion order
Context(ts, ord, task) ==
    [project_name |-> "project",
     task_name |-> task.name,
     requirements |-> Requirements,
     architecture |-> Architecture,
     dependency |-> DependencyOutputs(<< >>, ts, SelectSeq(ord, LAMBDA d : d \in task.dependencies))]

\* project.add_task(Task(...)) with a fresh id, a name of the caller's choice
\* and dependencies on any of the tasks registered before; the task with id n
\* is assigned to the n-th system agent
ContextAddTask(name, dependencies) ==
    /\ Idle
    /\ Created
    /\ Len(order) < MaxContextTasks
    /\ LET id == Len(order) + 1
           task == Task(id, name, SystemAgents[id], PENDING, dependencies)
       IN /\ tasks' = AddTaskTo(tasks, task)
          /\ order' = AddKey(order, id)
    /\ Forget
    /\ UNCHANGED <<extVars, sysVars, phase, calls>>

NextContext ==
    \/ InitAgents
    \/ CreateProject
    \/ \E n \in ContextNames : \E d \in SUBSET Range(order) : ContextAddTask(n, d)
    \/ ExecuteNextTasks
    \/ StartTask
    \/ AgentNotFound
    \/ InvokeWorker
    \/ \E o \in WorkerOutcomes : WorkerReturns(o)
    \/ WorkerRaises
    \/ ExecuteReturn

SpecContext == Init /\ [][NextContext]_vars

\* ------------------------------------------------------------------------
\* Properties
\* ------------------------------------------------------------------------

NoDuplicates(s) == \A a, b \in 1..Len(s) : s[a] = s[b] => a = b

\* the tasks the claims call ready: Pending, every dependency an existing
\* Completed task
ReadySet ==
    {t \in DOMAIN tasks :
        /\ tasks[t].status = PENDING
        /\ \A d \in tasks[t].dependencies : d \in DOMAIN tasks /\ tasks[d].status = COMPLETED}

\* C1: get_ready_tasks returns exactly the Pending tasks whose every dependency
\* is an existing Completed task: a Pending task without dependencies is
\* returned, a task of any other status is not.
C1_ReadyExact ==
    pc = "ready_returned" =>
        /\ Range(ready_tasks) = ReadySet
        /\ NoDuplicates(ready_tasks)
        /\ \A t \in DOMAIN tasks :
              /\ (tasks[t].status = PENDING /\ tasks[t].dependencies = {}) => t \in Range(ready_tasks)
              /\ tasks[t].status # PENDING => t \notin Range(ready_tasks)

\* C1 witness: get_ready_tasks returned a task with a Completed dependency and
\* left out a Pending task with a dangling dependency
C1_Witness ==
    /\ pc = "ready_returned"
    /\ \E t \in Range(ready_tasks) : tasks[t].dependencies # {}
    /\ \E t \in DOMAIN tasks :
          tasks[t].status = PENDING /\ DanglingId \in tasks[t].dependencies /\ t \notin Range(ready_tasks)

\* a Pending task with a dependency that is not an existing Completed task
Unmet(t) ==
    /\ tasks[t].status = PENDING
    /\ \E d \in tasks[t].dependencies : d \notin DOMAIN tasks \/ tasks[d].status # COMPLETED

\* coordinate_agents has returned and nothing was called since
CoordReturned == pc = "coord_done"

\* C2: coordinate returns true only if every task is Completed or Failed, and
\* then phase is Completed; whenever a task remains Pending with an unmet
\* dependency, readyTasks is empty, coordinate returned false and the phase is
\* the one before the call.
C2_CoordinateResult ==
    CoordReturned =>
        /\ coord_result = "true" => (AllComplete(tasks) /\ phase = PHASE_COMPLETED)
        /\ (\E t \in DOMAIN tasks : Unmet(t)) =>
              /\ GetReadyTasks(tasks, order) = << >>
              /\ coord_result = "false"
              /\ phase = phase_at_call

\* C3: whenever coordinate has returned with every task Completed or Failed,
\* it returned true and phase is Completed.
C3_AllDoneReturnsTrue ==
    (CoordReturned /\ AllComplete(tasks)) =>
        (coord_result = "true" /\ phase = PHASE_COMPLETED)

\* C4: whenever coordinate has returned, no task of the project is ready.
C4_NoReadyTaskAtReturn ==
    CoordReturned => GetReadyTasks(tasks, order) = << >>

\* the status changes the claims allow
AllowedTransitions ==
    {<<PENDING, IN_PROGRESS>>, <<IN_PROGRESS, COMPLETED>>, <<IN_PROGRESS, FAILED>>, <<PENDING, BLOCKED>>}

\* C5: every change of a task's status is Pending -> InProgress,
\* InProgress -> Completed, InProgress -> Failed or Pending -> Blocked; no task
\* is InReview after a step; a Completed or Failed task keeps its status.
C5_Transitions ==
    [][ /\ \A t \in DOMAIN tasks :
              /\ t \in DOMAIN tasks'
              /\ tasks'[t].status # tasks[t].status =>
                    <<tasks[t].status, tasks'[t].status>> \in AllowedTransitions
              /\ tasks[t].status \in {COMPLETED, FAILED} => tasks'[t].status = tasks[t].status
        /\ \A t \in DOMAIN tasks' : tasks'[t].status # IN_REVIEW ]_vars

\* C5 witness: a task has been completed, another has failed, a third is in
\* progress
C5_Witness ==
    \E a, b, c \in DOMAIN tasks :
        /\ tasks[a].status = COMPLETED
        /\ tasks[b].status = FAILED
        /\ tasks[c].status = IN_PROGRESS

\* a Pending task with a dependency that is Failed or names no task
PermanentlyBlocked(ts, t) ==
    /\ ts[t].status = PENDING
    /\ \E d \in ts[t].dependencies : d \notin DOMAIN ts \/ ts[d].status = FAILED

\* C6: a Pending task with a Failed or missing dependency is not ready, has
\* never been dispatched, and as long as no task is added it stays such a task
\* (Pending, not ready) after every step.
C6_PermanentlyExcluded ==
    /\ [](\A t \in DOMAIN tasks :
            PermanentlyBlocked(tasks, t) =>
                /\ t \notin Range(GetReadyTasks(tasks, order))
                /\ t \notin Range(ready_tasks)
                /\ t \notin DOMAIN calls)
    /\ [][ \A t \in DOMAIN tasks :
              (PermanentlyBlocked(tasks, t) /\ DOMAIN tasks' = DOMAIN tasks) =>
                  (PermanentlyBlocked(tasks', t) /\ tasks'[t].status = PENDING) ]_vars

\* C6 witness: coordinate has returned, leaving one task Pending behind a
\* Failed dependency and another behind a dangling dependency
C6_Witness ==
    /\ CoordReturned
    /\ \E t \in DOMAIN tasks :
          tasks[t].status = PENDING /\ \E d \in tasks[t].dependencies : d \in DOMAIN tasks /\ tasks[d].status = FAILED
    /\ \E t \in DOMAIN tasks :
          tasks[t].status = PENDING /\ DanglingId \in tasks[t].dependencies

\* a Pending task whose only dependency is a Completed task
SoleDependencyCompleted(t) ==
    /\ tasks[t].status = PENDING
    /\ \E c \in DOMAIN tasks : tasks[t].dependencies = {c} /\ tasks[c].status = COMPLETED

\* the step is a call of get_ready_tasks that returned a non-empty list
ComputesReadyBatch == pc \in {"idle", "exec_done", "coord_done", "coord_loop"} /\ pc' = "exec_loop"

\* the step is a call of get_ready_tasks that returned the empty list
ComputesReadyEmpty == pc = "coord_loop" /\ pc' = "coord_done"

\* C7: a Completed task stays Completed and is in no later get_ready_tasks
\* result; a Pending task whose only dependency is Completed is in the result
\* of the next get_ready_tasks call.
C7_ReadinessMonotone ==
    [][ /\ \A t \in DOMAIN tasks :
              tasks[t].status = COMPLETED =>
                  /\ tasks'[t].status = COMPLETED
                  /\ t \notin Range(GetReadyTasks(tasks', order'))
                  /\ ComputesReadyBatch => t \notin Range(ready_tasks')
        /\ ComputesReadyBatch =>
              \A t \in DOMAIN tasks : SoleDependencyCompleted(t) => t \in Range(ready_tasks')
        /\ ComputesReadyEmpty =>
              \A t \in DOMAIN tasks : ~SoleDependencyCompleted(t) ]_vars

\* C7 witness: the batch just computed holds a task whose only dependency was
\* completed by an earlier batch
C7_Witness ==
    /\ pc = "exec_loop"
    /\ i = 1
    /\ \E t \in Range(ready_tasks) : SoleDependencyCompleted(t)

\* execute_next_tasks has returned its results
ExecuteReturned == pc \in {"exec_done", "coord_check"}

\* the tasks that were ready when execute_next_tasks was entered
ReadyAtCall ==
    {t \in DOMAIN status_at_call :
        /\ status_at_call[t] = PENDING
        /\ \A d \in tasks[t].dependencies :
              d \in DOMAIN status_at_call /\ status_at_call[d] = COMPLETED}

\* C8: when execute_next_tasks returns, every task that was ready at the call
\* is Completed or Failed and every other task has the status it had at the
\* call.
C8_BatchIsolated ==
    ExecuteReturned =>
        /\ DOMAIN status_at_call = DOMAIN tasks
        /\ \A t \in ReadyAtCall : tasks[t].status \in {COMPLETED, FAILED}
        /\ \A t \in DOMAIN tasks \ ReadyAtCall : tasks[t].status = status_at_call[t]

\* position of a task in the batch
Pos(t) == CHOOSE k \in 1..Len(ready_tasks) : ready_tasks[k] = t

\* C8 witness: in one returned batch a task without agent failed, after it a
\* task whose Worker raised failed, after that a task was completed, and a
\* task outside the batch is still Pending
C8_Witness ==
    /\ ExecuteReturned
    /\ \E a, b, c \in ReadyAtCall :
          /\ calls[a].outcome = "no_agent"
          /\ calls[b].outcome = "raise"
          /\ tasks[c].status = COMPLETED
          /\ Pos(a) < Pos(b)
          /\ Pos(b) < Pos(c)
    /\ \E t \in DOMAIN tasks \ ReadyAtCall : tasks[t].status = PENDING

\* the tasks of the batch for which a Worker was invoked, in batch order
Dispatched == SelectSeq(ready_tasks, LAMBDA t : calls[t].outcome # "no_agent")

\* C9: when execute_next_tasks returns, each task of the batch has the status
\* its outcome decides: no agent registered -> Failed, no Worker invoked, no
\* entry in results; success result -> Completed with output the Worker's
\* result; error result or exception -> Failed with one error entry in
\* results.
C9_StatusByOutcome ==
    ExecuteReturned =>
        /\ \A t \in Range(ready_tasks) :
              /\ t \in DOMAIN calls
              /\ (calls[t].outcome = "no_agent") = (tasks[t].assigned_to \notin agent_registry)
              /\ calls[t].outcome = "no_agent" =>
                    (tasks[t].status = FAILED /\ calls[t].invoked = 0)
              /\ calls[t].outcome # "no_agent" => calls[t].invoked = 1
              /\ calls[t].outcome = "success" =>
                    (tasks[t].status = COMPLETED /\ tasks[t].output = calls[t].result)
              /\ calls[t].outcome \in {"error", "raise"} => tasks[t].status = FAILED
        /\ Len(results) = Len(Dispatched)
        /\ \A k \in 1..Len(Dispatched) :
              LET t == Dispatched[k]
              IN /\ calls[t].outcome = "success" =>
                       (results[k] = calls[t].result /\ results[k].status = "success")
                 /\ calls[t].outcome = "error" =>
                       (results[k] = calls[t].result /\ results[k].status = "error")
                 /\ calls[t].outcome = "raise" => results[k].status = "error"

\* C9 witness: one returned batch holds a task without agent, a task whose
\* Worker succeeded and a task whose Worker returned an error result
C9_Witness ==
    /\ ExecuteReturned
    /\ \E a, b, c \in Range(ready_tasks) :
          /\ calls[a].outcome = "no_agent"
          /\ calls[b].outcome = "success"
          /\ calls[c].outcome = "error"

\* C10: a task that Failed because its Worker returned an error result or
\* raised has a non-empty error field.
C10_ErrorCaptured ==
    \A t \in DOMAIN calls :
        (calls[t].outcome \in {"error", "raise"} /\ tasks[t].status = FAILED) =>
            tasks[t].error # None

\* C11: coordinate is serialized per project: with two callers running
\* coordinate concurrently on the same project, no task is dispatched to a
\* Worker more than once and no task's status changes after it has reached
\* Completed or Failed.
C11_Serialized ==
    [][/\ \A t \in DOMAIN calls' : calls'[t].invoked <= 1
       /\ \A t \in DOMAIN tasks :
             tasks[t].status \in {COMPLETED, FAILED} => tasks'[t].status = tasks[t].status]_vars

\* C12: in every state reachable through create_project, plan_project /
\* add_task, execute_next_tasks and coordinate_agents in any order, phase =
\* Completed implies that every task of the project is Completed or Failed.
C12_CompletedPhase ==
    phase = PHASE_COMPLETED =>
        \A t \in DOMAIN tasks : tasks[t].status \in {COMPLETED, FAILED}

\* C13: coordinate_agents never sets phase to Completed unless the last task
\* of the pipeline has left Pending; in particular not on a project without
\* tasks.
C13_FinalTaskExercised ==
    [][(pc = "coord_loop" /\ phase' = PHASE_COMPLETED) =>
          /\ order # << >>
          /\ tasks'[order[Len(order)]].status # PENDING]_vars

\* the pipeline the claims expect of plan_project: task names and roles
ExpectedPipeline ==
    << <<"Analyze Requirements", "ProductManager">>,
       <<"Design Architecture", "Architect">>,
       <<"Implement Backend", "BackendDeveloper">>,
       <<"Write Tests", "QAEngineer">>,
       <<"Prepare Deployment", "DevOpsEngineer">>,
       <<"Create User Documentation", "DocumentationAgent">> >>

\* a step of plan_project: tasks are appended, the first of them is the
\* requirements analysis
PlanStep ==
    /\ Len(order') > Len(order)
    /\ tasks'[order'[Len(order) + 1]].name = "Analyze Requirements"

\* C14: plan_project registers exactly 6 tasks, named and assigned as in
\* ExpectedPipeline and in that order; the first has no dependencies and every
\* other task depends on exactly the task before it.
C14_SixTaskPipeline ==
    [][PlanStep =>
          /\ Len(order') = Len(order) + Len(ExpectedPipeline)
          /\ \A k \in 1..Len(ExpectedPipeline) :
                LET t == tasks'[order'[Len(order) + k]]
                IN /\ t.name = ExpectedPipeline[k][1]
                   /\ t.assigned_to = ExpectedPipeline[k][2]
                   /\ t.dependencies = IF k = 1 THEN {} ELSE {order'[Len(order) + k - 1]}]_vars

\* the number of times plan_project has been called on the project
PlansDone == Cardinality({t \in DOMAIN tasks : tasks[t].name = "Analyze Requirements"})

\* C15: a second plan_project on the same project leaves every registered task
\* unchanged and appends a second chain of the same length with fresh ids: the
\* task count doubles, the new chain repeats the first one and no task of one
\* chain depends on a task of the other.
C15_SecondChainAppended ==
    [][(PlanStep /\ PlansDone = 1) =>
          LET n == Len(order)
              old == DOMAIN tasks
              new == DOMAIN tasks' \ DOMAIN tasks
          IN /\ \A t \in old : t \in DOMAIN tasks' /\ tasks'[t] = tasks[t]
             /\ SubSeq(order', 1, n) = order
             /\ Len(order') = 2 * n
             /\ Range(order') = DOMAIN tasks'
             /\ NoDuplicates(order')
             /\ \A t \in new : tasks'[t].dependencies \subseteq new
             /\ \A t \in old : tasks'[t].dependencies \subseteq old
             /\ \A k \in 1..n :
                   LET a == tasks'[order'[k]]
                       b == tasks'[order'[n + k]]
                   IN /\ b.name = a.name
                      /\ b.assigned_to = a.assigned_to
                      /\ b.status = PENDING
                      /\ b.dependencies = IF k = 1 THEN {} ELSE {order'[n + k - 1]}]_vars

\* C15 witness: a second chain has been appended to a project whose first
\* chain had already run in part, and that chain kept its statuses and output
C15_Witness ==
    /\ Len(order) = 2 * Len(PlanTasks(1))
    /\ PlansDone = 2
    /\ tasks[1].status = COMPLETED
    /\ tasks[1].output # NoResult
    /\ tasks[2].status = FAILED
    /\ \A k \in 1..Len(PlanTasks(1)) : tasks[Len(PlanTasks(1)) + k].status = PENDING

\* the returned percentage p with p = completed / total * 100, 0 <= p <= 100
\* and p = 0 on a project without tasks
ProgressReported(r) ==
    LET p == r.progress_percentage
        total == Cardinality(DOMAIN tasks)
        completed == Cardinality({t \in DOMAIN tasks : tasks[t].status = COMPLETED})
    IN /\ r.raised = None
       /\ p.den > 0
       /\ p.num * total = completed * 100 * p.den
       /\ 0 <= p.num
       /\ p.num <= 100 * p.den
       /\ total = 0 => p.num = 0

FullProgress(r) == r.progress_percentage.num = 100 * r.progress_percentage.den

StatusReturned == pc = "status_done" /\ Created

\* C16 as stated: get_project_status reports completed / total * 100, between
\* 0 and 100, 0 for a project without tasks, and 100 if and only if every task
\* of the project is Completed.
C16_ProgressAsStated ==
    StatusReturned =>
        /\ ProgressReported(project_status)
        /\ FullProgress(project_status) <=> (\A t \in DOMAIN tasks : tasks[t].status = COMPLETED)

\* C16: get_project_status reports completed / total * 100, between 0 and 100,
\* 0 for a project without tasks, and 100 if and only if the project has a
\* task and every task of it is Completed.
C16_Progress ==
    StatusReturned =>
        /\ ProgressReported(project_status)
        /\ FullProgress(project_status) <=>
              (DOMAIN tasks # {} /\ \A t \in DOMAIN tasks : tasks[t].status = COMPLETED)

\* C16 witness: the status of a project whose tasks are all Completed reports 100
C16_Witness ==
    /\ StatusReturned
    /\ DOMAIN tasks # {}
    /\ \A t \in DOMAIN tasks : tasks[t].status = COMPLETED
    /\ FullProgress(project_status)
    /\ project_status.task_summary[COMPLETED] = project_status.total_tasks

\* C17: load_from_file(save_to_file(state)) equals the original state in every
\* field, createdAt included, and in every field of every task (id, name,
\* role, status, dependencies, createdAt, completedAt, output, error).
C17_RoundTrip ==
    pc = "loaded" => loaded = ProjectState

\* the positions in the history of the writes to a path of a project
WritesTo(project_id, path) ==
    {k \in 1..Len(saves) : saves[k].project_id = project_id /\ saves[k].path = path}

Max(S) == CHOOSE m \in S : \A k \in S : k <= m

\* C18: for any sequence of save_artifact calls, a path written n >= 1 times
\* has exactly one Artifact record for (project, path), with version n and the
\* content of the last write; a path never written has none.  (The first write
\* gives version 1, every later one adds exactly 1, writes elsewhere change
\* nothing.)
C18_ArtifactVersion ==
    \A p \in ArtifactProjects : \A path \in ArtifactPaths :
        LET n == Cardinality(WritesTo(p, path))
            found == MatchingRows(artifacts, p, path)
        IN IF n = 0
           THEN found = {}
           ELSE /\ Cardinality(found) = 1
                /\ \A k \in found :
                      /\ artifacts[k].version = n
                      /\ artifacts[k].content = saves[Max(WritesTo(p, path))].content

\* C18 witness: a path written three times, last with a content other than the
\* first, next to a path of the same project written once
C18_Witness ==
    /\ Cardinality(WritesTo("p1", "app.py")) = 3
    /\ Cardinality(WritesTo("p1", "README.md")) = 1
    /\ \E k \in MatchingRows(artifacts, "p1", "app.py") :
          /\ artifacts[k].version = 3
          /\ artifacts[k].content = "v2"
          /\ saves[1].content = "v1"
          /\ saves[1].path = "app.py"
    /\ \E k \in MatchingRows(artifacts, "p1", "README.md") : artifacts[k].version = 1

\* the positions of the blocks of a kind that name a path; a bare filename at
\* the very start of the text is not a match of heuristic 3
Producing(kind, path) ==
    {k \in 1..Len(text) :
        /\ text[k].kind = kind
        /\ Strip(text[k].name) = path
        /\ kind = "bare" => k > 1}

Contents(kind, path) == {Strip(text[k].code) : k \in Producing(kind, path)}

Paths == {Strip(n) : n \in RawNames}

\* C19: when a path is produced by more than one heuristic, extract_code_blocks
\* returns the content of a tagged fence over that of a bold-filename block,
\* and that of a bold-filename block over that of a bare-filename block; a
\* path no heuristic produces is not returned.
C19_Precedence ==
    extracted.returned =>
        \A p \in Paths :
            IF Producing("tagged", p) # {}
            THEN p \in DOMAIN extracted.files /\ extracted.files[p] \in Contents("tagged", p)
            ELSE IF Producing("bold", p) # {}
            THEN p \in DOMAIN extracted.files /\ extracted.files[p] \in Contents("bold", p)
            ELSE IF Producing("bare", p) # {}
            THEN p \in DOMAIN extracted.files /\ extracted.files[p] \in Contents("bare", p)
            ELSE p \notin DOMAIN extracted.files

\* C19 witness: app.py is named by a bold block, then by a bare block, then
\* by a tagged fence with a content of its own, and the content of the tagged
\* fence is returned
C19_Witness ==
    /\ extracted.returned
    /\ Len(text) = 3
    /\ text[1] = [kind |-> "bold", name |-> "app.py", code |-> "A\n"]
    /\ text[2] = [kind |-> "bare", name |-> "app.py", code |-> "A\n"]
    /\ text[3] = [kind |-> "tagged", name |-> " app.py", code |-> "B\n"]
    /\ extracted.files = [f \in {"app.py"} |-> "B"]

Min(S) == CHOOSE m \in S : \A k \in S : m <= k

\* C20: when one heuristic matches the same path several times, the content
\* returned for the path is that of the first match in text order (of the
\* heuristic whose content is returned).
C20_FirstMatchWins ==
    extracted.returned =>
        \A p \in DOMAIN extracted.files :
            LET kind == IF Producing("tagged", p) # {} THEN "tagged"
                        ELSE IF Producing("bold", p) # {} THEN "bold" ELSE "bare"
            IN extracted.files[p] = Strip(text[Min(Producing(kind, p))].code)

\* the contents the structured mappings of the agent output give for a path
MappingContents(path) ==
    {agent_output[k].files.val[path] :
        k \in {x \in DOMAIN agent_output :
                  /\ agent_output[x].type = "dict"
                  /\ path \in Range(agent_output[x].files.keys)}}

\* the contents the extraction from the text fields gives for a path
TextContents(path) ==
    {CodeBlocks(agent_output[k].text)[path] :
        k \in {x \in DOMAIN agent_output :
                  /\ agent_output[x].type = "str"
                  /\ path \in DOMAIN CodeBlocks(agent_output[x].text)}}

\* C21: when a Worker result holds a path -> content mapping and a text whose
\* extraction yields the same path, parse_file_structure returns the mapping's
\* content for the path, whichever keys the two are stored under.
C21_MappingWins ==
    parsed.returned =>
        \A path \in Range(parsed.files.keys) :
            (MappingContents(path) # {} /\ TextContents(path) # {}) =>
                parsed.files.val[path] \in MappingContents(path)

\* C22: a failed write of one path does not stop the others: every path of
\* the file set either failed or is on disk with its content, written_files
\* holds exactly the paths written, and success is reported if and only if
\* written_files is not empty.
C22_BestEffort ==
    generated.returned =>
        /\ \A path \in Range(parsed.files.keys) :
              /\ path \in failed \/ path \in Range(written_files)
              /\ path \in Range(written_files) <=> path \notin failed
              /\ path \notin failed => (path \in DOMAIN disk /\ disk[path] = parsed.files.val[path])
        /\ Range(written_files) \subseteq Range(parsed.files.keys)
        /\ NoDuplicates(written_files)
        /\ generated.file_list = written_files
        /\ generated.success <=> written_files # << >>

\* C22 witness: the write of the first path failed, the second path was
\* written with its content and success is reported
C22_Witness ==
    /\ generated.returned
    /\ parsed.files.keys = <<"app.py", "util.py">>
    /\ failed = {"app.py"}
    /\ written_files = <<"util.py">>
    /\ disk["util.py"] = "B"
    /\ generated.success

\* task a reaches id b along at most n dependency edges
RECURSIVE Reaches(_, _, _, _)
Reaches(ts, a, b, n) ==
    /\ n > 0
    /\ a \in DOMAIN ts
    /\ \/ b \in ts[a].dependencies
       \/ \E c \in ts[a].dependencies : Reaches(ts, c, b, n - 1)

\* the dependency graph of the tasks contains a cycle
Cyclic(ts) == \E t \in DOMAIN ts : Reaches(ts, t, t, Cardinality(DOMAIN ts))

\* C23: an add_task / plan_project that would close a dependency cycle (a task
\* depending on itself included) is rejected and leaves the tasks unchanged:
\* the dependency graph of a project never contains a cycle.
C23_NoCycle == ~Cyclic(tasks)

\* C24: add_task with an id the project already has is rejected: no step of
\* the caller between two calls replaces a registered task or changes its
\* status, output or dependencies.
C24_NoReplace ==
    [][Idle => \A t \in DOMAIN tasks : t \in DOMAIN tasks' /\ tasks'[t] = tasks[t]]_vars

\* C28: coordinate_agents terminates on every task graph, cyclic, dangling or
\* with failed dependencies, as long as every Worker invocation returns: a
\* call that entered its loop returns; every batch it executed moved a task
\* out of Pending; and no step of a running call puts a task back to Pending.
C28_Terminates ==
    /\ (pc = "coord_loop") ~> (pc = "coord_done")
    /\ [](pc = "coord_check" =>
            \E t \in DOMAIN status_at_call :
                status_at_call[t] = PENDING /\ tasks[t].status # PENDING)
    /\ [][~Idle => \A t \in DOMAIN tasks :
                      tasks[t].status # PENDING => tasks'[t].status # PENDING]_vars

\* C28 witness: coordinate_agents has returned on a graph with a cycle, after
\* it completed the tasks outside the cycle
C28_Witness ==
    /\ pc = "coord_done"
    /\ coord_result = "false"
    /\ Cyclic(tasks)
    /\ \E t \in DOMAIN tasks : tasks[t].status = COMPLETED
    /\ \E t \in DOMAIN tasks : tasks[t].status = PENDING

\* C25: plan_project, execute_next_tasks, get_project_status and
\* coordinate_agents called with a project id that create_project never
\* returned raise an error and change nothing: the call ends at once with
\* ValueError, no Worker is invoked, and the registered projects, their tasks
\* and their phase are as before.
C25_UnknownProject ==
    /\ [][(Idle /\ raised' # NoCall /\ raised'.project_id \notin project_states) =>
            /\ raised'.error = "ValueError"
            /\ pc' = "raised"
            /\ project_states' = project_states
            /\ <<tasks, order, phase>>' = <<tasks, order, phase>>
            /\ calls' = calls]_vars
    /\ [](raised.error = "ValueError" <=> pc = "raised")
    /\ [][pc = "raised" => (pc' = "idle" /\ UNCHANGED <<project_states, tasks, order, phase, calls>>)]_vars

\* C25 witness: coordinate_agents on an id that was never returned has raised
\* while the project that exists holds a completed and a pending task
C25_Witness ==
    /\ pc = "raised"
    /\ raised = [op |-> "coordinate_agents", project_id |-> UnknownId, error |-> "ValueError"]
    /\ Created
    /\ \E t \in DOMAIN tasks : tasks[t].status = COMPLETED
    /\ \E t \in DOMAIN tasks : tasks[t].status = PENDING

\* C26: nothing is retried: over any sequence of execute_next_tasks and
\* coordinate_agents calls of one caller a Worker is invoked at most once for
\* each task, and the task a call starts is Pending: a task In Progress,
\* Completed or Failed is never started again.
C26_NoRetry ==
    /\ [](\A t \in DOMAIN calls : calls[t].invoked <= 1)
    /\ [][(pc = "exec_loop" /\ pc' = "lookup") => tasks[ready_tasks[i]].status = PENDING]_vars
    /\ [][\A t \in DOMAIN tasks :
            (tasks[t].status # PENDING /\ t \in DOMAIN tasks') => tasks'[t].status # PENDING]_vars

\* C26 witness: coordinate_agents was called again after a Worker had failed a
\* task, it returned, and the Worker of that task has been invoked once
C26_Witness ==
    /\ pc = "coord_done"
    /\ \E t \in DOMAIN tasks :
          /\ tasks[t].status = FAILED
          /\ t \in DOMAIN calls
          /\ calls[t].invoked = 1
          /\ phase_at_call = PHASE_COMPLETED

\* position of a task in the insertion order of the project
OrderPos(t) == CHOOSE k \in 1..Len(order) : order[k] = t

InProgress == {t \in DOMAIN tasks : tasks[t].status = IN_PROGRESS}

\* C27: tasks are executed one at a time: at most one task is In Progress in
\* any state, it is the task of the batch the call is at; when the Worker of a
\* task is invoked every earlier task of the batch is Completed or Failed; and
\* the tasks of a batch are in insertion order.
C27_Sequential ==
    /\ Cardinality(InProgress) <= 1
    /\ InProgress # {} => (pc \in {"lookup", "worker"} /\ InProgress = {ready_tasks[i]})
    /\ pc \in {"lookup", "worker"} =>
          \A k \in 1..(i - 1) : tasks[ready_tasks[k]].status \in {COMPLETED, FAILED}
    /\ \A a, b \in 1..Len(ready_tasks) :
          a < b => OrderPos(ready_tasks[a]) < OrderPos(ready_tasks[b])

\* C27 witness: three tasks were ready in one batch; the first is Completed,
\* the second Failed, the Worker of the third is running and it is the only
\* task In Progress
C27_Witness ==
    /\ pc = "worker"
    /\ Len(ready_tasks) = 3
    /\ i = 3
    /\ tasks[ready_tasks[1]].status = COMPLETED
    /\ tasks[ready_tasks[2]].status = FAILED
    /\ InProgress = {ready_tasks[3]}

\* C29: whenever a Worker is invoked for a task, every dependency of the task
\* is Completed, and the context holds the project requirements and, for each
\* dependency, that dependency's output under the key of the dependency's
\* name; no other task's output is in the context.
C29_Context ==
    pc = "worker" =>
        LET task == tasks[ready_tasks[i]]
            context == Context(tasks, order, task)
        IN /\ \A d \in task.dependencies : d \in DOMAIN tasks /\ tasks[d].status = COMPLETED
           /\ context.requirements = Requirements
           /\ \A d \in task.dependencies :
                 /\ tasks[d].name \in DOMAIN context.dependency
                 /\ context.dependency[tasks[d].name] = tasks[d].output
           /\ \A n \in DOMAIN context.dependency :
                 \E d \in task.dependencies :
                     tasks[d].name = n /\ context.dependency[n] = tasks[d].output

\* C30: when execute_next_tasks returns, the agent of each task it executed
\* shows the outcome of the last task it was given: status 'ready' and an
\* empty current_task after a success result, status 'error' and current_task
\* 'Failed: <task name>' after an error result, status 'error' and
\* current_task 'Error: <exception message>' after an exception; no agent has
\* status 'working'.
C30_AgentStatus ==
    ExecuteReturned =>
        /\ \A k \in 1..Len(Dispatched) :
              LET t == Dispatched[k]
                  agent == tasks[t].assigned_to
              IN (\A l \in (k + 1)..Len(Dispatched) : tasks[Dispatched[l]].assigned_to # agent) =>
                 /\ calls[t].outcome = "success" =>
                       /\ AgentStatus(agent) = "ready"
                       /\ AgentCurrentTask(agent) = CurrentTask("", "")
                 /\ calls[t].outcome = "error" =>
                       /\ AgentStatus(agent) = "error"
                       /\ AgentCurrentTask(agent) = CurrentTask("Failed: ", tasks[t].name)
                 /\ calls[t].outcome = "raise" =>
                       /\ AgentStatus(agent) = "error"
                       /\ AgentCurrentTask(agent) = CurrentTask("Error: ", ExceptionResult(tasks[t]).error)
        /\ \A agent \in agent_registry : AgentStatus(agent) # "working"

====
